---- MODULE Spec2Model ----
(***************************************************************************)
(* Model of sails.core.crypto (Signature, Encrypt), sails.core.file        *)
(* (EncryptedFileWriter, EncryptedFileReader, ObservedFile) and            *)
(* sails.core.retry (Retry and its layers).                                *)
(*                                                                         *)
(* Bytes are sequences of 0..255.  A base64 text is a sequence of          *)
(* character classes: 0..63 is the index of an alphabet character, PAD is  *)
(* "=", JUNK is any character outside the alphabet.  Time is counted in    *)
(* ticks, TimeRes ticks to the second, so that time.time() has a           *)
(* fractional part.  Every call returns a record whose field exc names the *)
(* exception that left the call ("none" when it returned).                 *)
(***************************************************************************)
EXTENDS Integers, Sequences, FiniteSets, TLC

VARIABLES now, signed, verified, cw, cr, file, writer, reader, observed,
          built, policy, made, watch, wfile

tokenVars  == <<now, signed, verified>>
cipherVars == <<cw, cr>>
storeVars  == <<file, writer, reader, observed>>
retryVars  == <<built, policy>>
watchVars  == <<made, watch, wfile>>
vars       == <<now, signed, verified, cw, cr, file, writer, reader, observed,
               built, policy, made, watch, wfile>>

(***************************************************************************)
(* Bounds of the model.                                                    *)
(***************************************************************************)
\* ticks the clock may advance after its start
MaxTicks == 4
\* lines a writer session may be asked to write
MaxLines == 2
\* chunks in a file that exists before the sessions start
MaxFileLen == 3
\* the largest max_attempts of a retry policy
MaxAttempts == 2
\* the largest time budget of a retry policy, in ticks
MaxTime == 3
\* the largest backoff base of a retry policy, in ticks
MaxBackoff == 2
\* ticks the body of a retrying loop may take for one attempt
MaxWork == 1
\* frames the interpreter allows on its stack
RecursionLimit == 3
\* the largest value a parser returns
MaxValue == 2
MaxReads == 2

(***************************************************************************)
(* Program constants.                                                      *)
(***************************************************************************)
VERSION == 1
BYTE_FORMAT_size == 7
DigestSize == 48
FernetKeyLen == 44
TimeRes == 2
PAD == 64
JUNK == 65

\* ------------------------------------------------------------------------
\* Byte helpers
\* ------------------------------------------------------------------------
Slice(s, a, b) == IF a > b THEN <<>> ELSE SubSeq(s, a, b)

\* s[:n] and s[n:] of Python, for n >= 0
Take(s, n) == Slice(s, 1, IF n < Len(s) THEN n ELSE Len(s))
Drop(s, n) == Slice(s, n + 1, Len(s))

Zeros(n) == [i \in 1..n |-> 0]

Repeat(c, n) == [i \in 1..n |-> c]

\* str.encode("utf8") on a sequence of code points below 2048
RECURSIVE utf8(_)
utf8(m) ==
    IF Len(m) = 0 THEN <<>>
    ELSE LET c == Head(m) IN
         (IF c < 128 THEN <<c>> ELSE <<192 + (c \div 64), 128 + (c % 64)>>)
             \o utf8(Tail(m))

\* ------------------------------------------------------------------------
\* struct.Struct("<BxxI")
\* ------------------------------------------------------------------------
\* "<I": four bytes, least significant first
LE32(n) == <<n % 256, (n \div 256) % 256, (n \div 65536) % 256,
             (n \div 16777216) % 256>>

FromLE32(b) == b[1] + 256 * b[2] + 65536 * b[3] + 16777216 * b[4]

\* BYTE_FORMAT.pack(version, expiry): struct.error when a field is out of
\* the range of its format (B: 0..255, I: 0..2^32-1)
pack(version, expiry) ==
    IF version < 0 \/ version > 255 \/ expiry < 0 \/ (expiry \div 65536) > 65535
    THEN [exc |-> "struct.error", ret |-> <<>>]
    ELSE [exc |-> "none", ret |-> <<version, 0, 0>> \o LE32(expiry)]

\* BYTE_FORMAT.unpack(header): struct.error unless the buffer is 7 bytes;
\* the two pad bytes are skipped
unpack(header) ==
    IF Len(header) # BYTE_FORMAT_size
    THEN [exc |-> "struct.error", version |-> 0, expiry |-> 0]
    ELSE [exc |-> "none", version |-> header[1],
          expiry |-> FromLE32(SubSeq(header, 4, 7))]

\* ------------------------------------------------------------------------
\* base64.urlsafe_b64encode / urlsafe_b64decode
\* ------------------------------------------------------------------------
\* byte i of b, 0 past its end
ByteAt(b, i) == IF i <= Len(b) THEN b[i] ELSE 0

\* three bytes become four characters; the last group is padded with "="
urlsafe_b64encode(b) ==
    LET n == Len(b)
        Char(j) ==
            LET g == (j - 1) \div 4
                r == (j - 1) % 4
                b1 == ByteAt(b, 3 * g + 1)
                b2 == ByteAt(b, 3 * g + 2)
                b3 == ByteAt(b, 3 * g + 3)
            IN  IF r = 0 THEN b1 \div 4
                ELSE IF r = 1 THEN (b1 % 4) * 16 + (b2 \div 16)
                ELSE IF r = 2
                     THEN IF 3 * g + 2 > n THEN PAD
                          ELSE (b2 % 16) * 4 + (b3 \div 64)
                ELSE IF 3 * g + 3 > n THEN PAD ELSE b3 % 64
    IN  [j \in 1..(4 * ((n + 2) \div 3)) |-> Char(j)]

IsAlphabet(c) == c < PAD
NotJunk(c) == c <= PAD

\* binascii.a2b_base64, not strict: characters outside the alphabet are
\* skipped; a "=" that completes the padding of a quad holding 2 or 3
\* characters ends the input; a quad left unfinished at the end of the
\* input is an error
urlsafe_b64decode(s) ==
    LET d == SelectSeq(s, NotJunk)
        \* alphabet characters before position j of d
        Before(j) == Len(SelectSeq(Take(d, j - 1), IsAlphabet))
        Stops == { j \in 1..Len(d) :
                     /\ d[j] = PAD
                     /\ \/ Before(j) % 4 = 3
                        \/ Before(j) % 4 = 2 /\ j > 1 /\ d[j - 1] = PAD }
        stop == IF Stops = {} THEN Len(d) + 1
                ELSE CHOOSE j \in Stops : \A o \in Stops : j <= o
        c == SelectSeq(Take(d, stop - 1), IsAlphabet)
        q == Len(c) % 4
        Byte(k) ==
            LET g == (k - 1) \div 3
                r == (k - 1) % 3
            IN  IF r = 0 THEN c[4 * g + 1] * 4 + (c[4 * g + 2] \div 16)
                ELSE IF r = 1
                     THEN (c[4 * g + 2] % 16) * 16 + (c[4 * g + 3] \div 4)
                ELSE (c[4 * g + 3] % 4) * 64 + c[4 * g + 4]
        n == (Len(c) \div 4) * 3 + (IF q = 2 THEN 1 ELSE IF q = 3 THEN 2 ELSE 0)
    IN  IF Stops = {} /\ q # 0 THEN [exc |-> "binascii.Error", ret |-> <<>>]
        ELSE [exc |-> "none", ret |-> [k \in 1..n |-> Byte(k)]]

\* ------------------------------------------------------------------------
\* hmac.new(key, msg, digestmod).digest()
\* ------------------------------------------------------------------------
\* HMAC-SHA384 as an ideal MAC: 48 bytes that determine the key (by its
\* length and its end bytes, which tell the keys of the model apart) and
\* the message
sha384_mac(key, msg) ==
    LET body == <<Len(key), key[1], key[Len(key)], Len(msg)>> \o msg
    IN  body \o Zeros(DigestSize - Len(body))

\* digestmod is "constructor" for hashlib.sha384 and "object" for
\* hashlib.sha384(): hmac calls digestmod.new() on what is neither callable
\* nor a name, and a hash object has no attribute new
hmac_new_digest(key, msg, digestmod) ==
    IF digestmod = "constructor"
    THEN [exc |-> "none", ret |-> sha384_mac(key, msg)]
    ELSE [exc |-> "AttributeError", ret |-> <<>>]

compare_digest(a, b) == a = b

\* ------------------------------------------------------------------------
\* Signature.sign / Signature.verify
\* ------------------------------------------------------------------------
CorruptMessage == "The signature was corrupt and cannot be read."
ExpiredMessage == "The signature has expired and is no longer valid."
InvalidMessage == "The signature digest is not the same, the signature is not valid."

\* sign at time t (ticks) with max_age (ticks):
\* expiry = int(time.time() + max_age.total_seconds())
sign(secret, message, max_age, t) ==
    LET expiry == (t + max_age) \div TimeRes
        header == pack(VERSION, expiry)
    IN  IF header.exc # "none" THEN [exc |-> header.exc, ret |-> <<>>]
        ELSE LET payload == header.ret \o utf8(message)
                 digest == hmac_new_digest(secret.data, payload, "constructor")
             IN  IF digest.exc # "none" THEN [exc |-> digest.exc, ret |-> <<>>]
                 ELSE [exc |-> "none",
                       ret |-> urlsafe_b64encode(header.ret \o digest.ret)]

SignatureError(message) ==
    [exc |-> "SignatureError", msg |-> message, version |-> 0, expiry |-> 0]

\* a verify that compares the digest before it looks at the expiry
verify_digest_first(secret, message, signature, t) ==
    LET decoded == urlsafe_b64decode(signature)
        header == Take(decoded.ret, BYTE_FORMAT_size)
        digest == Drop(decoded.ret, BYTE_FORMAT_size)
        fields == unpack(header)
    IN  IF decoded.exc # "none" \/ fields.exc # "none"
           \/ fields.version # VERSION \/ Len(digest) # DigestSize
        THEN SignatureError(CorruptMessage)
        ELSE LET payload == header \o utf8(message)
                 compared == hmac_new_digest(secret.data, payload, "object")
             IN  IF compared.exc # "none"
                 THEN [exc |-> compared.exc, msg |-> "", version |-> 0,
                       expiry |-> 0]
                 ELSE IF ~compare_digest(compared.ret, digest)
                 THEN SignatureError(InvalidMessage)
                 ELSE IF t > fields.expiry * TimeRes
                 THEN SignatureError(ExpiredMessage)
                 ELSE [exc |-> "none", msg |-> "", version |-> fields.version,
                       expiry |-> fields.expiry]

\* a verify whose except clause lets binascii.Error through
verify_uncaught(secret, message, signature, t) ==
    LET decoded == urlsafe_b64decode(signature)
        header == Take(decoded.ret, BYTE_FORMAT_size)
        digest == Drop(decoded.ret, BYTE_FORMAT_size)
        fields == unpack(header)
    IN  IF decoded.exc # "none"
        THEN [exc |-> decoded.exc, msg |-> "", version |-> 0, expiry |-> 0]
        ELSE IF fields.exc # "none"
           \/ fields.version # VERSION \/ Len(digest) # DigestSize
        THEN SignatureError(CorruptMessage)
        ELSE IF t > fields.expiry * TimeRes
        THEN SignatureError(ExpiredMessage)
        ELSE LET payload == header \o utf8(message)
                 compared == hmac_new_digest(secret.data, payload, "object")
             IN  IF compared.exc # "none"
                 THEN [exc |-> compared.exc, msg |-> "", version |-> 0,
                       expiry |-> 0]
                 ELSE IF ~compare_digest(compared.ret, digest)
                 THEN SignatureError(InvalidMessage)
                 ELSE [exc |-> "none", msg |-> "", version |-> fields.version,
                       expiry |-> fields.expiry]

\* verify at time t (ticks)
verify(secret, message, signature, t) ==
    LET decoded == urlsafe_b64decode(signature)
        header == Take(decoded.ret, BYTE_FORMAT_size)
        digest == Drop(decoded.ret, BYTE_FORMAT_size)
        fields == unpack(header)
    IN  IF decoded.exc # "none" \/ fields.exc # "none"
           \/ fields.version # VERSION \/ Len(digest) # DigestSize
        THEN SignatureError(CorruptMessage)
        ELSE IF t > fields.expiry * TimeRes
        THEN SignatureError(ExpiredMessage)
        ELSE LET payload == header \o utf8(message)
                 compared == hmac_new_digest(secret.data, payload, "object")
             IN  IF compared.exc # "none"
                 THEN [exc |-> compared.exc, msg |-> "", version |-> 0,
                       expiry |-> 0]
                 ELSE IF ~compare_digest(compared.ret, digest)
                 THEN SignatureError(InvalidMessage)
                 ELSE [exc |-> "none", msg |-> "", version |-> fields.version,
                       expiry |-> fields.expiry]

\* ------------------------------------------------------------------------
\* cryptography.fernet.Fernet
\* ------------------------------------------------------------------------
\* Ciphertexts and file contents are sequences of chunks: a whole Fernet
\* token (made with a key, holding a plaintext), a newline, bytes that are
\* no token, or the characters "0" of a str.
Token(key, pt) == [kind |-> "token", key |-> key, pt |-> pt]
NL == [kind |-> "nl", key |-> <<>>, pt |-> <<>>]
Garbage == [kind |-> "garbage", key |-> <<>>, pt |-> <<>>]
Str0 == [kind |-> "str0", key |-> <<>>, pt |-> <<>>]

\* Fernet(key): ValueError unless the key is 32 bytes in url-safe base64
FernetKeyOK(key) == Len(key) = FernetKeyLen

fernet_encrypt(key, data) == <<Token(key, data)>>

IsNotNL(c) == c.kind # "nl"

\* the base64 text of a token ends with "=" unless its length (57 bytes
\* and the 16-byte blocks of the padded plaintext) is a multiple of 3
TokenPadded(t) == ((Len(t.pt) \div 16) + 1) % 3 # 0

\* Fernet.decrypt(raw): the base64 decoder skips newlines and stops at
\* the padding of the first token; what it decodes must be one token made
\* with this key
fernet_decrypt(key, raw) ==
    LET d == SelectSeq(raw, IsNotNL)
    IN  IF /\ Len(d) >= 1
           /\ d[1].kind = "token"
           /\ d[1].key = key
           /\ (Len(d) = 1 \/ TokenPadded(d[1]))
        THEN [exc |-> "none", ret |-> d[1].pt]
        ELSE [exc |-> "InvalidToken", ret |-> <<>>]

\* ------------------------------------------------------------------------
\* Encrypt.write / Encrypt.read
\* ------------------------------------------------------------------------
\* message ^ secret: str has no __xor__ and Secret no __rxor__
str_xor_secret(message, secret) == [exc |-> "TypeError", ret |-> <<>>]

\* decoded_message ^ secret.data: bytes has no __xor__
bytes_xor_bytes(data, key) == [exc |-> "TypeError", ret |-> <<>>]

Encrypt_write(message, secret) ==
    IF ~FernetKeyOK(secret.data) THEN [exc |-> "ValueError", ret |-> <<>>]
    ELSE LET xor_message == str_xor_secret(message, secret)
         IN  IF xor_message.exc # "none"
             THEN [exc |-> xor_message.exc, ret |-> <<>>]
             ELSE [exc |-> "none",
                   ret |-> fernet_encrypt(secret.data, utf8(xor_message.ret))]

Encrypt_read(raw, secret) ==
    IF ~FernetKeyOK(secret.data) THEN [exc |-> "ValueError", ret |-> <<>>]
    ELSE LET decoded_message == fernet_decrypt(secret.data, raw)
         IN  IF decoded_message.exc # "none"
             THEN [exc |-> decoded_message.exc, ret |-> <<>>]
             ELSE bytes_xor_bytes(decoded_message.ret, secret.data)

\* ------------------------------------------------------------------------
\* Inputs of the token operations
\* ------------------------------------------------------------------------
KA == [data |-> Repeat(65, FernetKeyLen)]
KB == [data |-> Repeat(66, FernetKeyLen)]
KShort == [data |-> <<107>>]

TokenSecrets == {KA, KShort}
\* "", "a", "e-acute"
Messages == {<<>>, <<97>>, <<233>>}
\* max_age, in ticks: half a second, one second
MaxAges == {1, 2}
StartTime == 510
\* the digest bytes that are changed, and what is added to them
TamperPositions == 1..DigestSize
TamperDeltas == {1, 255}

SetByte(b, i, v) == [b EXCEPT ![i] = v]

\* the token tk with d added to byte i of its digest
DigestTampered(tk, i, d) ==
    LET raw == urlsafe_b64decode(tk).ret
    IN  urlsafe_b64encode(SetByte(raw, BYTE_FORMAT_size + i,
                                  (raw[BYTE_FORMAT_size + i] + d) % 256))

\* tokens with a changed header over the digest of tk: another version, a
\* nonzero pad byte, an expiry in the past
HeaderTampered(tk) ==
    LET raw == urlsafe_b64decode(tk).ret
    IN  { urlsafe_b64encode(SetByte(raw, 1, 0)),
          urlsafe_b64encode(SetByte(raw, 1, 2)),
          urlsafe_b64encode(SetByte(raw, 2, 1)),
          urlsafe_b64encode(pack(VERSION, 0).ret \o Drop(raw, BYTE_FORMAT_size)) }

\* tokens cut short, grown, or with characters outside the alphabet
Malformed(tk) ==
    LET raw == urlsafe_b64decode(tk).ret
    IN  { Take(tk, n) : n \in {0, 4, 5, 8, 12, 72} }
        \cup { urlsafe_b64encode(Take(raw, Len(raw) - 1)),
               urlsafe_b64encode(Append(raw, 0)),
               urlsafe_b64encode(pack(2, 0).ret) }
        \cup { <<JUNK>> \o tk, SetByte(tk, 1, JUNK), <<JUNK, JUNK>> }

NoSign == [called |-> FALSE, secret |-> KA, message |-> <<>>, max_age |-> 0,
           at |-> 0, exc |-> "none", ret |-> <<>>]

NoVerify == [called |-> FALSE, secret |-> KA, message |-> <<>>,
             signature |-> <<>>, at |-> 0, exc |-> "none", msg |-> "",
             version |-> 0, expiry |-> 0]

NoCipherCall == [called |-> FALSE]

NoFile == [exists |-> FALSE, data |-> <<>>]
NoSession == [pc |-> "none"]
NoRead == [exc |-> "none", returned |-> FALSE, ret |-> <<>>,
           readFile |-> NoFile]
NotObserved == [seen |-> FALSE, file |-> NoFile]
NoBuilt == [called |-> FALSE]
NoPolicy == [pc |-> "none"]
NoMade == [called |-> FALSE]
NoWatch == [pc |-> "none"]
NoWFile == [exists |-> FALSE]

\* ------------------------------------------------------------------------
\* The token operations as a state machine: the clock, the last sign call
\* (its token is what travels to the verifier), and the verify call whose
\* outcome the caller is holding.  sign and verify are synchronous: the
\* clock does not advance inside a call.
\* ------------------------------------------------------------------------
InitToken ==
    /\ now = StartTime
    /\ signed = NoSign
    /\ verified = NoVerify
    /\ cw = NoCipherCall /\ cr = NoCipherCall
    /\ file = NoFile /\ writer = NoSession /\ reader = NoSession
    /\ observed = NotObserved
    /\ built = NoBuilt /\ policy = NoPolicy
    /\ made = NoMade /\ watch = NoWatch /\ wfile = NoWFile

\* time.time() advances
Tick ==
    /\ ~verified.called
    /\ now < StartTime + MaxTicks
    /\ now' = now + 1
    /\ UNCHANGED <<signed, verified, cipherVars, storeVars, retryVars,
                 watchVars>>

Sign ==
    \E k \in TokenSecrets, m \in Messages, d \in MaxAges :
        LET res == sign(k, m, d, now)
        IN  /\ ~verified.called
            /\ signed' = [called |-> TRUE, secret |-> k, message |-> m,
                          max_age |-> d, at |-> now, exc |-> res.exc,
                          ret |-> res.ret]
            /\ verified' = NoVerify
            /\ UNCHANGED <<now, cipherVars, storeVars, retryVars,
                 watchVars>>

VerifyCall(k, m, sig) ==
    LET res == verify(k, m, sig, now)
    IN  /\ verified' = [called |-> TRUE, secret |-> k, message |-> m,
                        signature |-> sig, at |-> now, exc |-> res.exc,
                        msg |-> res.msg, version |-> res.version,
                        expiry |-> res.expiry]
        /\ UNCHANGED <<now, signed, cipherVars, storeVars, retryVars,
                 watchVars>>

\* verify the token as signed, with any secret and message
Verify ==
    /\ signed.called /\ signed.exc = "none" /\ ~verified.called
    /\ \E k \in TokenSecrets, m \in Messages : VerifyCall(k, m, signed.ret)

\* verify the token with one digest byte changed
VerifyTampered ==
    /\ signed.called /\ signed.exc = "none" /\ ~verified.called
    /\ \E i \in TamperPositions, d \in TamperDeltas :
           VerifyCall(signed.secret, signed.message,
                      DigestTampered(signed.ret, i, d))

\* verify a token with a changed header, or one that is not a token
VerifyMalformed ==
    /\ signed.called /\ signed.exc = "none" /\ ~verified.called
    /\ \E sig \in HeaderTampered(signed.ret) \cup Malformed(signed.ret) :
           VerifyCall(signed.secret, signed.message, sig)

\* the caller has looked at the outcome of verify
VerifyDone ==
    /\ verified.called
    /\ verified' = NoVerify
    /\ UNCHANGED <<now, signed, cipherVars, storeVars, retryVars,
                 watchVars>>

NextToken ==
    Tick \/ Sign \/ Verify \/ VerifyTampered \/ VerifyMalformed \/ VerifyDone

SpecToken == InitToken /\ [][NextToken]_vars

\* ------------------------------------------------------------------------
\* Properties of sign / verify
\* ------------------------------------------------------------------------
\* the header fields and the digest carried by a decodable signature
DecodedHeader(sig) == Take(urlsafe_b64decode(sig).ret, BYTE_FORMAT_size)
DecodedDigest(sig) == Drop(urlsafe_b64decode(sig).ret, BYTE_FORMAT_size)
DecodedExpiry(sig) == FromLE32(SubSeq(DecodedHeader(sig), 4, 7))

\* the token is not decodable, is shorter than a header, has another
\* version, or has a digest part that is not 48 bytes
IsCorrupt(sig) ==
    LET decoded == urlsafe_b64decode(sig)
    IN  \/ decoded.exc # "none"
        \/ Len(decoded.ret) < BYTE_FORMAT_size
        \/ decoded.ret[1] # VERSION
        \/ Len(decoded.ret) - BYTE_FORMAT_size # DigestSize

IsExpiredAt(sig, t) == t > DecodedExpiry(sig) * TimeRes

DigestMatches(secret, message, sig) ==
    DecodedDigest(sig) = sha384_mac(secret.data, DecodedHeader(sig) \o utf8(message))

Failed(call, message) == call.exc = "SignatureError" /\ call.msg = message

\* the verify call is on the token as signed, with its secret and message
VerifiesSigned ==
    /\ signed.called /\ signed.exc = "none" /\ verified.called
    /\ verified.signature = signed.ret
    /\ verified.secret = signed.secret
    /\ verified.message = signed.message

\* the verify call is on the signed token with exactly one digest byte
\* changed and the header intact, with its secret and message
VerifiesTampered ==
    /\ signed.called /\ signed.exc = "none" /\ verified.called
    /\ verified.secret = signed.secret
    /\ verified.message = signed.message
    /\ urlsafe_b64decode(verified.signature).exc = "none"
    /\ DecodedHeader(verified.signature) = DecodedHeader(signed.ret)
    /\ Len(DecodedDigest(verified.signature)) = DigestSize
    /\ Cardinality({ i \in 1..DigestSize :
                       DecodedDigest(verified.signature)[i]
                           # DecodedDigest(signed.ret)[i] }) = 1

\* C1: verifying a signed token with its secret and message, not later
\* than its expiry, succeeds and returns a header with the supported
\* version and with expiry = signing time truncated to seconds + max_age.
C1_RoundTrip ==
    (VerifiesSigned /\ verified.at <= DecodedExpiry(signed.ret) * TimeRes)
        => /\ verified.exc = "none"
           /\ verified.version = VERSION
           /\ verified.expiry * TimeRes
                  = (signed.at \div TimeRes) * TimeRes + signed.max_age

\* C2: a valid, unexpired token with one digest byte changed fails
\* verification with InvalidSignature and with nothing else.
C2_TamperDetected ==
    (VerifiesTampered /\ ~IsExpiredAt(signed.ret, verified.at))
        => Failed(verified, InvalidMessage)

\* C3: a well-formed token with a correct digest is rejected with
\* ExpiredSignature exactly when now > expiry, and verification at any
\* now <= expiry (expiry included) succeeds.
C3_ExpiryBoundary ==
    VerifiesSigned
        => /\ Failed(verified, ExpiredMessage)
                  <=> IsExpiredAt(signed.ret, verified.at)
           /\ ~IsExpiredAt(signed.ret, verified.at) => verified.exc = "none"

\* C4: verify fails with CorruptSignature, and with no other exception,
\* for every token that is not decodable base64, that decodes to fewer
\* than 7 bytes, whose version is not the supported one, or whose digest
\* part is not exactly 48 bytes.
C4_CorruptInput ==
    (verified.called /\ IsCorrupt(verified.signature))
        => Failed(verified, CorruptMessage)

\* a token that base64 cannot decode was verified and reported corrupt
C4_Witness ==
    /\ verified.called
    /\ urlsafe_b64decode(verified.signature).exc # "none"
    /\ Failed(verified, CorruptMessage)

\* C5: the three failure kinds reach the caller as three distinct
\* outcomes: a corrupt token is reported as CorruptSignature, an expired
\* one as ExpiredSignature, a digest mismatch as InvalidSignature, and no
\* failure is turned into a successful return.
C5_DistinctKinds ==
    /\ Cardinality({CorruptMessage, ExpiredMessage, InvalidMessage}) = 3
    /\ verified.called =>
         LET sig == verified.signature
             corrupt == IsCorrupt(sig)
             expired == ~corrupt /\ IsExpiredAt(sig, verified.at)
             invalid == ~corrupt /\ ~expired
                        /\ ~DigestMatches(verified.secret, verified.message, sig)
         IN  /\ corrupt => Failed(verified, CorruptMessage)
             /\ expired => Failed(verified, ExpiredMessage)
             /\ invalid => Failed(verified, InvalidMessage)
             /\ verified.exc = "none" => ~corrupt /\ ~expired /\ ~invalid

\* C19: verify checks the structure first, then the expiry, then the
\* digest: a token that is structurally corrupt and past its expiry fails
\* with CorruptSignature, a structurally valid token that is expired and
\* carries a wrong digest fails with ExpiredSignature, and
\* InvalidSignature is reported only for tokens that are structurally
\* valid and unexpired.
C19_CheckOrder ==
    verified.called =>
        LET sig == verified.signature
            corrupt == IsCorrupt(sig)
            decodes == /\ urlsafe_b64decode(sig).exc = "none"
                       /\ Len(urlsafe_b64decode(sig).ret) >= BYTE_FORMAT_size
        IN  /\ (corrupt /\ decodes /\ IsExpiredAt(sig, verified.at))
                  => Failed(verified, CorruptMessage)
            /\ (~corrupt /\ IsExpiredAt(sig, verified.at)
                  /\ ~DigestMatches(verified.secret, verified.message, sig))
                  => Failed(verified, ExpiredMessage)
            /\ Failed(verified, InvalidMessage)
                  => ~corrupt /\ ~IsExpiredAt(sig, verified.at)

\* a structurally valid token that is past its expiry and whose digest
\* does not match was verified and reported expired
C19_Witness ==
    /\ verified.called
    /\ ~IsCorrupt(verified.signature)
    /\ IsExpiredAt(verified.signature, verified.at)
    /\ ~DigestMatches(verified.secret, verified.message, verified.signature)
    /\ Failed(verified, ExpiredMessage)

\* the verify call is on the token as signed and not after its expiry
VerifiesUnexpired ==
    /\ signed.called /\ signed.exc = "none" /\ verified.called
    /\ verified.signature = signed.ret
    /\ ~IsExpiredAt(signed.ret, verified.at)

\* C25: a token made by sign(k, m, d) that is verified before its expiry
\* with another secret or with another message fails with
\* InvalidSignature; verify succeeds only with the secret and the message
\* the token was signed with.
C25_WrongPairRejected ==
    VerifiesUnexpired
        => /\ (verified.secret # signed.secret
                  \/ verified.message # signed.message)
                 => Failed(verified, InvalidMessage)
           /\ verified.exc = "none"
                 => /\ verified.secret = signed.secret
                    /\ verified.message = signed.message

\* ------------------------------------------------------------------------
\* The cipher as a state machine: the last Encrypt.write call and the last
\* Encrypt.read call
\* ------------------------------------------------------------------------
CipherSecrets == {KA, KB, KShort}
\* "a", "e-acute", "a\n"
Plaintexts == {<<97>>, <<233>>, <<97, 10>>}
\* ciphertexts that Fernet itself made, and bytes that are no ciphertext
ForeignRaws ==
    { fernet_encrypt(k.data, utf8(m)) : k \in {KA, KB}, m \in Plaintexts }
        \cup { <<>>, <<Garbage>> }

InitCipher ==
    /\ cw = NoCipherCall /\ cr = NoCipherCall
    /\ now = StartTime /\ signed = NoSign /\ verified = NoVerify
    /\ file = NoFile /\ writer = NoSession /\ reader = NoSession
    /\ observed = NotObserved
    /\ built = NoBuilt /\ policy = NoPolicy
    /\ made = NoMade /\ watch = NoWatch /\ wfile = NoWFile

EncryptWrite ==
    \E m \in Plaintexts, k \in CipherSecrets :
        LET res == Encrypt_write(m, k)
        IN  /\ cw' = [called |-> TRUE, message |-> m, secret |-> k,
                      exc |-> res.exc, ret |-> res.ret]
            /\ UNCHANGED <<cr, tokenVars, storeVars, retryVars,
                 watchVars>>

EncryptReadCall(raw, k) ==
    LET res == Encrypt_read(raw, k)
    IN  /\ cr' = [called |-> TRUE, raw |-> raw, secret |-> k,
                  exc |-> res.exc, ret |-> res.ret]
        /\ UNCHANGED <<cw, tokenVars, storeVars, retryVars,
                 watchVars>>

\* read what the last write returned
EncryptReadBack ==
    /\ cw.called
    /\ \E k \in CipherSecrets : EncryptReadCall(cw.ret, k)

\* read bytes that came from elsewhere
EncryptReadForeign ==
    \E raw \in ForeignRaws, k \in CipherSecrets : EncryptReadCall(raw, k)

NextCipher == EncryptWrite \/ EncryptReadBack \/ EncryptReadForeign

SpecCipher == InitCipher /\ [][NextCipher]_vars

\* C6: for every secret k and message m, read(write(m, k), k) returns m,
\* and for every other key, read(write(m, k), k') fails with
\* DecryptionError and returns no plaintext.
C6_CipherRoundTrip ==
    /\ (cw.called /\ FernetKeyOK(cw.secret.data)) => cw.exc = "none"
    /\ (cw.called /\ cw.exc = "none" /\ cr.called /\ cr.raw = cw.ret
            /\ FernetKeyOK(cr.secret.data))
         => IF cr.secret = cw.secret
            THEN cr.exc = "none" /\ cr.ret = utf8(cw.message)
            ELSE cr.exc = "DecryptionError" /\ cr.ret = <<>>

\* ------------------------------------------------------------------------
\* EncryptedFileWriter / EncryptedFileReader
\* ------------------------------------------------------------------------
\* bytes.decode() of sequences of one- and two-byte characters
RECURSIVE utf8_decode(_)
utf8_decode(b) ==
    IF Len(b) = 0 THEN <<>>
    ELSE IF b[1] < 128 THEN <<b[1]>> \o utf8_decode(Tail(b))
    ELSE <<(b[1] - 192) * 64 + (b[2] - 128)>> \o utf8_decode(Tail(Tail(b)))

\* str.rstrip("\n")
RECURSIVE rstrip(_)
rstrip(m) ==
    IF Len(m) > 0 /\ m[Len(m)] = 10 THEN rstrip(SubSeq(m, 1, Len(m) - 1))
    ELSE m

\* handle.readlines() of a binary file: every line ends after its newline
RECURSIVE readlines(_)
readlines(data) ==
    IF Len(data) = 0 THEN <<>>
    ELSE LET Ends == { i \in 1..Len(data) : data[i].kind = "nl" }
             end == IF Ends = {} THEN Len(data)
                    ELSE CHOOSE i \in Ends : \A j \in Ends : i <= j
         IN  <<SubSeq(data, 1, end)>> \o readlines(Drop(data, end))

\* EncryptedFileWriter.write: the line is encrypted and the ciphertext is
\* appended to the buffer; nothing is appended when encryption raises
Writer_write(self, message) ==
    LET encrypted_message == Encrypt_write(Append(message, 10), self.secret)
    IN  IF encrypted_message.exc # "none"
        THEN [self EXCEPT !.exc = encrypted_message.exc]
        ELSE [self EXCEPT !.exc = "none",
                          !.buffer = self.buffer \o encrypted_message.ret]

\* open(path, "wb"): the file is created or cut to length 0
open_wb(f) == [exists |-> TRUE, data |-> <<>>]

\* index of the first buffer entry that handle.write rejects (a str in a
\* binary file: TypeError), or one past the end
FirstStr(buffer) ==
    LET Strs == { i \in 1..Len(buffer) : buffer[i].kind = "str0" }
    IN  IF Strs = {} THEN Len(buffer) + 1
        ELSE CHOOSE i \in Strs : \A j \in Strs : i <= j

\* EncryptedFileWriter.commit run to its end: the file is opened for
\* writing, each buffer entry is written and then replaced by "0" * len;
\* leaving the with block closes the file, which flushes what was written
Writer_commit(self, f) ==
    LET stop == FirstStr(self.buffer)
        written == Take(self.buffer, stop - 1)
    IN  [self |-> [self EXCEPT
                     !.buffer = [i \in 1..Len(self.buffer) |->
                                   IF i < stop THEN Str0 ELSE self.buffer[i]],
                     !.exc = IF stop <= Len(self.buffer) THEN "TypeError"
                             ELSE "none",
                     !.commitCalled = TRUE,
                     !.committed = self.lines],
         file |-> [exists |-> TRUE, data |-> written]]

\* an exit that writes the buffer out, as a writer that flushes on close
Writer_exit_flushing(self, f) ==
    [self |-> [self EXCEPT !.pc = "exited", !.exc = "none",
                           !.exitExc = "none"],
     file |-> Writer_commit(self, f).file]

\* EncryptedFileWriter.__exit__: "del buffer" names a local that was never
\* bound, so the exit raises and the fields are left as they are; exitExc
\* is what __exit__ raised, cleared says that the buffer is gone
Writer_exit(self, f) ==
    [self |-> [self EXCEPT !.pc = "exited", !.exc = "UnboundLocalError",
                           !.exitExc = "UnboundLocalError"],
     file |-> f]

\* an __enter__ that opens the file at the path
Reader_enter_opening(self, f) ==
    [self EXCEPT !.entered = TRUE,
                 !.enterExc = IF f.exists THEN "none"
                              ELSE "FileNotFoundError"]

\* EncryptedFileReader.__enter__: os.path.exists(self.path) is returned
Reader_enter(self, f) == [self EXCEPT !.entered = f.exists]

\* EncryptedFileReader.__exit__: del self.buffer, del self.secret; it
\* returns None, so an exception of the body goes on to the caller
Reader_exit(self) ==
    [self EXCEPT !.pc = "exited", !.buffer = <<>>, !.cleared = TRUE]

\* the exception that leaves the with statement of the session s: the one
\* __exit__ raised, or else the one the body raised
Leaves(s) == IF s.exitExc # "none" THEN s.exitExc ELSE s.bodyExc

\* EncryptedFileReader.read, the loop over the lines that are left
RECURSIVE read_lines(_, _, _)
read_lines(lines, secret, buffer) ==
    IF Len(lines) = 0 THEN [exc |-> "none", buffer |-> buffer]
    ELSE LET decrypted == Encrypt_read(Head(lines), secret)
         IN  IF decrypted.exc # "none"
             THEN [exc |-> decrypted.exc, buffer |-> buffer]
             ELSE read_lines(Tail(lines), secret,
                             Append(buffer, rstrip(utf8_decode(decrypted.ret))))

\* a loop that goes on to the next line when a line fails to decrypt
RECURSIVE read_lines_skipping(_, _, _)
read_lines_skipping(lines, secret, buffer) ==
    IF Len(lines) = 0 THEN [exc |-> "none", buffer |-> buffer]
    ELSE LET decrypted == Encrypt_read(Head(lines), secret)
         IN  IF decrypted.exc = "InvalidToken"
             THEN read_lines_skipping(Tail(lines), secret, buffer)
             ELSE IF decrypted.exc # "none"
             THEN [exc |-> decrypted.exc, buffer |-> buffer]
             ELSE read_lines_skipping(Tail(lines), secret,
                      Append(buffer, rstrip(utf8_decode(decrypted.ret))))

\* what the last call of read gave the caller
Outcome(self) ==
    [exc |-> self.exc, returned |-> self.returned, ret |-> self.ret,
     readFile |-> self.readFile]

Reader_read_skipping(self, f) ==
    IF ~f.exists
    THEN [self EXCEPT !.exc = "FileNotFoundError", !.returned = FALSE,
                      !.ret = <<>>, !.reads = self.reads + 1,
                      !.readFile = f, !.prev = Outcome(self)]
    ELSE LET res == read_lines_skipping(readlines(f.data), self.secret,
                                        self.buffer)
         IN  [self EXCEPT !.exc = res.exc, !.buffer = res.buffer,
                          !.returned = (res.exc = "none"),
                          !.ret = IF res.exc = "none" THEN res.buffer ELSE <<>>,
                          !.reads = self.reads + 1, !.readFile = f,
                          !.prev = Outcome(self)]

\* EncryptedFileReader.read: ret is the list returned, when one is
Reader_read(self, f) ==
    IF ~f.exists
    THEN [self EXCEPT !.exc = "FileNotFoundError", !.returned = FALSE,
                      !.ret = <<>>, !.reads = self.reads + 1,
                      !.readFile = f, !.prev = Outcome(self)]
    ELSE LET res == read_lines(readlines(f.data), self.secret, self.buffer)
         IN  [self EXCEPT !.exc = res.exc, !.buffer = res.buffer,
                          !.returned = (res.exc = "none"),
                          !.ret = IF res.exc = "none" THEN res.buffer ELSE <<>>,
                          !.reads = self.reads + 1, !.readFile = f,
                          !.prev = Outcome(self)]

\* ------------------------------------------------------------------------
\* The line store as a state machine: the file at the path, one writer
\* session and one reader session
\* ------------------------------------------------------------------------
StoreSecrets == {KA, KB}
\* "a", "b"
Lines == {<<97>>, <<98>>}

\* what a file may hold before the sessions start
FileChunks == { Token(KA.data, <<97, 10>>), Token(KB.data, <<97, 10>>),
                NL, Garbage }
RECURSIVE SeqsUpTo(_, _)
SeqsUpTo(S, n) ==
    IF n = 0 THEN {<<>>}
    ELSE LET shorter == SeqsUpTo(S, n - 1)
         IN  shorter \cup { Append(q, x) : q \in shorter, x \in S }

InitialFiles ==
    {NoFile} \cup { [exists |-> TRUE, data |-> d] :
                      d \in SeqsUpTo(FileChunks, MaxFileLen) }

InitStore ==
    /\ file \in InitialFiles
    /\ writer = NoSession
    /\ reader = NoSession
    /\ observed = NotObserved
    /\ built = NoBuilt /\ policy = NoPolicy
    /\ made = NoMade /\ watch = NoWatch /\ wfile = NoWFile
    /\ now = StartTime /\ signed = NoSign /\ verified = NoVerify
    /\ cw = NoCipherCall /\ cr = NoCipherCall

\* EncryptedFileWriter(path, secret) and __enter__
WriterEnter ==
    /\ writer.pc = "none"
    /\ \E k \in StoreSecrets :
           writer' = [pc |-> "open", secret |-> k, buffer |-> <<>>,
                      lines |-> <<>>, exc |-> "none", commitCalled |-> FALSE,
                      committed |-> <<>>, atEnter |-> file,
                      bodyExc |-> "none", exitExc |-> "none",
                      cleared |-> FALSE]
    /\ UNCHANGED <<file, reader, observed, tokenVars, cipherVars, retryVars,
                 watchVars>>

\* write(message); the caller may go on after an exception
WriterWrite ==
    /\ writer.pc = "open" /\ Len(writer.lines) < MaxLines
    /\ \E m \in Lines :
           writer' = [Writer_write(writer, m) EXCEPT
                        !.lines = Append(writer.lines, m)]
    /\ UNCHANGED <<file, reader, observed, tokenVars, cipherVars, retryVars,
                 watchVars>>

\* commit()
WriterCommit ==
    /\ writer.pc = "open"
    /\ LET res == Writer_commit(writer, file)
       IN  writer' = res.self /\ file' = res.file
    /\ UNCHANGED <<reader, observed, tokenVars, cipherVars, retryVars,
                 watchVars>>

\* the with block is left, after commit or without it, at its end or by
\* the exception that the last call of the body raised
WriterExit ==
    /\ writer.pc = "open"
    /\ \E e \in {"none", writer.exc} :
           LET res == Writer_exit([writer EXCEPT !.bodyExc = e], file)
           IN  writer' = res.self /\ file' = res.file
    /\ UNCHANGED <<reader, observed, tokenVars, cipherVars, retryVars,
                 watchVars>>

\* EncryptedFileReader(path, secret) and __enter__
ReaderEnter ==
    /\ reader.pc = "none"
    /\ \E k \in StoreSecrets :
           reader' = Reader_enter(
                     [pc |-> "open", secret |-> k, buffer |-> <<>>,
                      entered |-> FALSE, exc |-> "none",
                      returned |-> FALSE, ret |-> <<>>, reads |-> 0,
                      readFile |-> NoFile, prev |-> NoRead,
                      atEnter |-> file, enterExc |-> "none",
                      bodyExc |-> "none", exitExc |-> "none",
                      cleared |-> FALSE], file)
    /\ UNCHANGED <<file, writer, observed, tokenVars, cipherVars, retryVars,
                 watchVars>>

\* read(), the first time in the session or again
ReaderRead ==
    /\ reader.pc = "open" /\ reader.enterExc = "none"
    /\ reader.reads < MaxReads
    /\ reader' = Reader_read(reader, file)
    /\ UNCHANGED <<file, writer, observed, tokenVars, cipherVars, retryVars,
                 watchVars>>

\* the with block is left, at its end or by the exception that the last
\* call of the body raised
ReaderExit ==
    /\ reader.pc = "open" /\ reader.enterExc = "none"
    /\ \E e \in {"none", reader.exc} :
           reader' = Reader_exit([reader EXCEPT !.bodyExc = e])
    /\ UNCHANGED <<file, writer, observed, tokenVars, cipherVars, retryVars,
                 watchVars>>

NextStore ==
    WriterEnter \/ WriterWrite \/ WriterCommit \/ WriterExit
        \/ ReaderEnter \/ ReaderRead \/ ReaderExit

SpecStore == InitStore /\ [][NextStore]_vars

\* ------------------------------------------------------------------------
\* Properties of the line store
\* ------------------------------------------------------------------------
\* the reader session has read the file as the writer's commit left it
ReadAfterCommit ==
    /\ writer.pc # "none" /\ writer.commitCalled
    /\ writer.committed = writer.lines
    /\ reader.pc # "none" /\ reader.reads = 1
    /\ reader.readFile = file
    /\ reader.secret = writer.secret

\* C7: a writer session that writes the lines L in order and commits,
\* followed by a fresh reader session on the same path and secret that
\* reads once, returns exactly L, same length and same order.
C7_StoreRoundTrip ==
    ReadAfterCommit => reader.returned /\ reader.ret = writer.lines

\* C8: a writer session that calls write any number of times and leaves
\* its scope without commit leaves the file at the path as it was: not
\* created and not modified.
C8_NoCommitNoFile ==
    (writer.pc \in {"open", "exited"} /\ ~writer.commitCalled)
        => file = writer.atEnter

\* a session has written lines and left without commit
C8_Witness ==
    /\ writer.pc = "exited" /\ ~writer.commitCalled
    /\ Len(writer.lines) = MaxLines
    /\ writer.exc = "UnboundLocalError"
    /\ file = writer.atEnter

\* the lines of the file that was read which do not decrypt
BadRecords ==
    LET lines == readlines(reader.readFile.data)
    IN  { i \in 1..Len(lines) :
            fernet_decrypt(reader.secret.data, lines[i]).exc # "none" }

\* C10: if any one record of the file fails to decrypt, read fails as a
\* whole and hands the caller no decrypted lines, wherever the bad record
\* is and however many records before it decrypt.
C10_ReadAllOrNothing ==
    (reader.pc # "none" /\ reader.reads = 1 /\ BadRecords # {})
        => reader.exc # "none" /\ ~reader.returned /\ reader.ret = <<>>

\* a file whose first record decrypts and whose last does not was read
C10_Witness ==
    /\ reader.pc # "none" /\ reader.reads = 1
    /\ Len(readlines(reader.readFile.data)) >= 2
    /\ BadRecords = {Len(readlines(reader.readFile.data))}
    /\ reader.exc # "none" /\ ~reader.returned

\* C23: leaving the scope of a writer session or of a reader session
\* clears the session's buffer on every way out (after commit, without
\* commit, after read, by an exception of the body), and the exit itself
\* raises nothing: the exception that leaves the with statement is the
\* one the body raised, or none.
C23_ExitClears ==
    /\ writer.pc = "exited"
           => /\ writer.cleared
              /\ writer.exitExc = "none"
              /\ Leaves(writer) = writer.bodyExc
    /\ reader.pc = "exited"
           => /\ reader.cleared /\ reader.buffer = <<>>
              /\ reader.exitExc = "none"
              /\ Leaves(reader) = reader.bodyExc

\* the half of C23 that is about the reader session
ReaderExitClears ==
    reader.pc = "exited"
        => /\ reader.cleared /\ reader.buffer = <<>>
           /\ reader.exitExc = "none"
           /\ Leaves(reader) = reader.bodyExc

\* C24: entering a reader session raises nothing and reports whether the
\* path exists, false for a missing path and true for an existing one;
\* entering reads and decrypts nothing.
C24_EnterReportsPresence ==
    reader.pc # "none"
        => /\ reader.enterExc = "none"
           /\ reader.entered = reader.atEnter.exists
           /\ reader.reads = 0
                  => /\ reader.buffer = <<>> /\ reader.ret = <<>>
                     /\ ~reader.returned /\ reader.exc = "none"
                     /\ reader.readFile = NoFile

\* a session was entered on a path where no file is
C24_Witness ==
    /\ reader.pc = "open" /\ reader.reads = 0
    /\ ~reader.atEnter.exists /\ ~reader.entered
    /\ reader.enterExc = "none"

\* the records of the file f under the secret, as read hands them back
Records(f, secret) ==
    LET lines == readlines(f.data)
    IN  [i \in 1..Len(lines) |->
           rstrip(utf8_decode(fernet_decrypt(secret.data, lines[i]).ret))]

\* C26: in one reader session on a file that does not change, every call
\* of read returns the records of the file in file order, and a second
\* call returns what the first returned, nothing added and nothing twice.
C26_ReadIdempotent ==
    (reader.pc # "none" /\ reader.reads >= 1 /\ reader.readFile.exists
        /\ BadRecords = {})
        => /\ reader.returned
           /\ reader.ret = Records(reader.readFile, reader.secret)
           /\ (reader.reads >= 2 /\ reader.prev.readFile = reader.readFile)
                  => /\ reader.prev.returned
                     /\ reader.prev.ret = reader.ret

\* the case of C26 in which the file has no records
ReadsOfEmptyFile ==
    (reader.pc # "none" /\ reader.reads >= 2
        /\ reader.readFile.exists /\ reader.readFile.data = <<>>
        /\ reader.prev.readFile = reader.readFile)
        => /\ reader.returned /\ reader.ret = <<>>
           /\ reader.prev.returned /\ reader.prev.ret = <<>>

\* ------------------------------------------------------------------------
\* The steps of commit, interleaved with a process that reads the path.
\* Writer_write cannot fill the buffer while Encrypt_write raises, so the
\* buffer, which is the input of commit, is drawn from the lists of
\* ciphertexts here.
\* ------------------------------------------------------------------------
CommitRecords == { Token(KA.data, <<97, 10>>), Token(KA.data, <<98, 10>>) }

CommitFiles ==
    {NoFile} \cup { [exists |-> TRUE, data |-> d] :
                      d \in SeqsUpTo(CommitRecords, 1) }

InitCommit ==
    /\ file \in CommitFiles
    /\ \E b \in SeqsUpTo(CommitRecords, MaxLines) :
           writer = [pc |-> "open", secret |-> KA, buffer |-> b,
                     lines |-> <<>>, exc |-> "none", commitCalled |-> FALSE,
                     committed |-> <<>>, atEnter |-> file, began |-> FALSE,
                     line_number |-> 0, pending |-> <<>>, old |-> file,
                     new |-> <<>>]
    /\ reader = NoSession
    /\ observed = NotObserved
    /\ built = NoBuilt /\ policy = NoPolicy
    /\ made = NoMade /\ watch = NoWatch /\ wfile = NoWFile
    /\ now = StartTime /\ signed = NoSign /\ verified = NoVerify
    /\ cw = NoCipherCall /\ cr = NoCipherCall

\* with open(self.path, "wb") as handle
CommitOpen ==
    /\ writer.pc = "open"
    /\ writer' = [writer EXCEPT !.pc = "writing", !.began = TRUE,
                                !.line_number = 1, !.pending = <<>>,
                                !.old = file, !.new = writer.buffer]
    /\ file' = open_wb(file)
    /\ UNCHANGED <<reader, observed, tokenVars, cipherVars, retryVars,
                 watchVars>>

\* handle.write(line); self.buffer[line_number] = "0" * len(line).
\* A str raises TypeError and the with block closes the file.
CommitWrite ==
    /\ writer.pc = "writing" /\ writer.line_number <= Len(writer.buffer)
    /\ LET line == writer.buffer[writer.line_number]
       IN  IF line.kind = "str0"
           THEN /\ writer' = [writer EXCEPT !.pc = "open", !.exc = "TypeError",
                                            !.pending = <<>>,
                                            !.commitCalled = TRUE]
                /\ file' = [file EXCEPT !.data = file.data \o writer.pending]
           ELSE /\ writer' = [writer EXCEPT
                                !.pending = Append(writer.pending, line),
                                !.buffer[writer.line_number] = Str0,
                                !.line_number = writer.line_number + 1]
                /\ file' = file
    /\ UNCHANGED <<reader, observed, tokenVars, cipherVars, retryVars,
                 watchVars>>

\* the buffered handle passes what it holds to the file when it is full
CommitFlush ==
    /\ writer.pc = "writing" /\ writer.pending # <<>>
    /\ file' = [file EXCEPT !.data = file.data \o writer.pending]
    /\ writer' = [writer EXCEPT !.pending = <<>>]
    /\ UNCHANGED <<reader, observed, tokenVars, cipherVars, retryVars,
                 watchVars>>

\* the loop is over and the with block closes the file
CommitClose ==
    /\ writer.pc = "writing" /\ writer.line_number > Len(writer.buffer)
    /\ file' = [file EXCEPT !.data = file.data \o writer.pending]
    /\ writer' = [writer EXCEPT !.pc = "open", !.exc = "none",
                                !.pending = <<>>, !.commitCalled = TRUE]
    /\ UNCHANGED <<reader, observed, tokenVars, cipherVars, retryVars,
                 watchVars>>

\* another process looks at the path once a commit has begun
Observe ==
    /\ writer.began
    /\ observed' = [seen |-> TRUE, file |-> file, old |-> writer.old,
                    new |-> writer.new]
    /\ UNCHANGED <<file, writer, reader, tokenVars, cipherVars, retryVars,
                 watchVars>>

NextCommit ==
    CommitOpen \/ CommitWrite \/ CommitFlush \/ CommitClose \/ Observe
        \/ WriterExit

SpecCommit == InitCommit /\ [][NextCommit]_vars

PyInt(n) == [tag |-> "int", v |-> n]
PyCls(c) == [tag |-> "class", v |-> 0, cls |-> c]
PyObj(o) == [tag |-> "object", v |-> 0, obj |-> o]
\* bool(x): a class and an instance are true, an int is true unless 0
Truthy(x) == x.tag # "int" \/ x.v # 0

None == [none |-> TRUE, v |-> 0]
Wait(n) == [none |-> FALSE, v |-> n]
\* bool(remaining) of a yielded wait
WaitTruthy(w) == ~w.none /\ w.v # 0

Min(a, b) == IF a <= b THEN a ELSE b

\* the instances, as the __init__ methods leave their fields
InfiniteObj == [cls |-> "InfiniteRetry"]
AttemptObj(retry, max_attempts) ==
    [cls |-> "AttemptRetry", retry |-> retry, max_attempts |-> max_attempts]
TimedObj(retry, time) == [cls |-> "TimedRetry", retry |-> retry, time |-> time]
BackoffObj(retry, backoff) ==
    [cls |-> "BackoffRetry", retry |-> retry, backoff |-> backoff]

Raised(e) == [exc |-> e, ret |-> InfiniteObj]
Returned(o) == [exc |-> "none", ret |-> o]

AttemptRetry_init(retry, max_attempts) ==
    Returned(AttemptObj(retry, max_attempts))

TimedRetry_init(retry, time) ==
    IF time >= 0 THEN Raised("ValueError")
    ELSE Returned(TimedObj(retry, time))

BackoffRetry_init(retry, backoff) ==
    Returned(BackoffObj(retry, backoff))

\* the parameters of Retry.__new__, in order, and their defaults
NewParams == <<"attempts", "time", "backoff">>
\* a call's keyword arguments are a function from some parameter names
NoKw == [n \in {} |-> PyInt(0)]

\* binding cls, *args, **kwargs to (attempts, time, backoff): __new__ is
\* declared without a cls parameter, so the class takes the first place
BindNew(cls, args, kwargs) ==
    LET positional == <<PyCls(cls)>> \o args
        clash == \E i \in 1..Len(positional) :
                     i <= Len(NewParams) /\ NewParams[i] \in DOMAIN kwargs
        Arg(i) == IF i <= Len(positional) THEN positional[i]
                  ELSE IF NewParams[i] \in DOMAIN kwargs
                       THEN kwargs[NewParams[i]]
                       ELSE PyInt(0)
    IN  IF Len(positional) > Len(NewParams) \/ clash
           \/ ~(DOMAIN kwargs \subseteq {NewParams[i] : i \in 1..Len(NewParams)})
        THEN [exc |-> "TypeError", attempts |-> PyInt(0), time |-> PyInt(0),
              backoff |-> PyInt(0)]
        ELSE [exc |-> "none", attempts |-> Arg(1), time |-> Arg(2),
              backoff |-> Arg(3)]

\* obj.__init__(*args, **kwargs), which type.__call__ runs on what __new__
\* returned when that is an instance of the class that was called
InitOf(cls, obj, args, kwargs) ==
    IF ~(cls = "Retry" \/ obj.cls = cls) THEN Returned(obj)
    ELSE IF obj.cls = "InfiniteRetry"
    THEN IF Len(args) = 0 /\ DOMAIN kwargs = {} THEN Returned(obj)
         ELSE Raised("TypeError")
    ELSE IF Len(args) # 2 \/ DOMAIN kwargs # {} \/ args[1].tag # "object"
    THEN Raised("TypeError")
    ELSE IF obj.cls = "AttemptRetry"
    THEN AttemptRetry_init(args[1].obj, args[2].v)
    ELSE IF obj.cls = "TimedRetry"
    THEN IF args[2].tag # "int" THEN Raised("TypeError")
         ELSE TimedRetry_init(args[1].obj, args[2].v)
    ELSE BackoffRetry_init(args[1].obj, args[2].v)

RECURSIVE Retry_call(_, _, _, _)

\* a Retry whose __new__ takes the class as a parameter of its own before
\* attempts, and makes its layers without entering __new__ again
Retry_call_cls(cls, args, kwargs, depth) ==
    LET Arg(i) == IF i <= Len(args) THEN args[i]
                  ELSE IF NewParams[i] \in DOMAIN kwargs
                       THEN kwargs[NewParams[i]]
                       ELSE PyInt(0)
        retry0 == InfiniteObj
        retry1 == IF Truthy(Arg(1)) THEN AttemptObj(retry0, Arg(1).v)
                  ELSE retry0
        retry2 == IF Truthy(Arg(2)) THEN TimedObj(retry1, Arg(2).v)
                  ELSE retry1
        retry3 == IF Truthy(Arg(3)) THEN BackoffObj(retry2, Arg(3).v)
                  ELSE retry2
    IN  InitOf(cls, retry3, args, kwargs)

\* the body of Retry.__new__, depth frames below the first call
Retry_new(attempts, time, backoff, depth) ==
    LET retry0 == Retry_call("InfiniteRetry", <<>>, NoKw, depth + 1)
        retry1 == IF Truthy(attempts)
                  THEN Retry_call("AttemptRetry",
                                  <<PyObj(retry0.ret), attempts>>, NoKw,
                                  depth + 1)
                  ELSE retry0
        retry2 == IF Truthy(time)
                  THEN Retry_call("TimedRetry", <<PyObj(retry1.ret), time>>,
                                  NoKw, depth + 1)
                  ELSE retry1
        retry3 == IF Truthy(backoff)
                  THEN Retry_call("BackoffRetry",
                                  <<PyObj(retry2.ret), backoff>>, NoKw,
                                  depth + 1)
                  ELSE retry2
    IN  IF retry0.exc # "none" THEN retry0
        ELSE IF retry1.exc # "none" THEN retry1
        ELSE IF retry2.exc # "none" THEN retry2
        ELSE retry3

\* cls(*args, **kwargs) for Retry and its subclasses, none of which
\* overrides __new__: the interpreter gives up at RecursionLimit frames
Retry_call(cls, args, kwargs, depth) ==
    IF depth >= RecursionLimit THEN Raised("RecursionError")
    ELSE LET bound == BindNew(cls, args, kwargs)
             obj == Retry_new(bound.attempts, bound.time, bound.backoff, depth)
         IN  IF bound.exc # "none" THEN Raised(bound.exc)
             ELSE IF obj.exc # "none" THEN obj
             ELSE InitOf(cls, obj.ret, args, kwargs)

\* Retry.__iter__: the generator of obj.attempts before its first step
RECURSIVE iter(_)
iter(obj) ==
    CASE obj.cls = "InfiniteRetry" -> [cls |-> "InfiniteRetry"]
      [] obj.cls = "AttemptRetry" ->
            [cls |-> "AttemptRetry", max_attempts |-> obj.max_attempts,
             inner |-> iter(obj.retry), attempt |-> 0]
      [] obj.cls = "TimedRetry" ->
            [cls |-> "TimedRetry", time |-> obj.time,
             inner |-> iter(obj.retry), started |-> FALSE, start |-> 0]
      [] obj.cls = "BackoffRetry" ->
            [cls |-> "BackoffRetry", backoff |-> obj.backoff,
             inner |-> iter(obj.retry), attempt |-> 0]

\* the outcomes of next(gen) at time t: a value, the end of the sequence,
\* or an exception; t is the time when next returns, slept the time spent
\* in time.sleep, wrapped the value the outermost layer got from the layer
\* it wraps, cause the layer that ended the sequence
Yield(gen, value, t, slept, wrapped) ==
    [gen |-> gen, stop |-> FALSE, exc |-> "none", value |-> value, t |-> t,
     slept |-> slept, wrapped |-> wrapped, cause |-> "none"]
Stop(gen, t, slept, cause) ==
    [gen |-> gen, stop |-> TRUE, exc |-> "none", value |-> None, t |-> t,
     slept |-> slept, wrapped |-> None, cause |-> cause]
Throw(gen, e, t, slept) ==
    [gen |-> gen, stop |-> TRUE, exc |-> e, value |-> None, t |-> t,
     slept |-> slept, wrapped |-> None, cause |-> "none"]

InfiniteRetry_attempts(gen, t) == Yield(gen, None, t, 0, None)

AttemptRetry_attempts(gen, r) ==
    LET pulled == [gen EXCEPT !.inner = r.gen]
    IN  IF r.stop THEN [r EXCEPT !.gen = pulled]
        ELSE IF gen.attempt = gen.max_attempts
        THEN Stop(pulled, r.t, r.slept, "attempts")
        ELSE Yield([pulled EXCEPT !.attempt = gen.attempt + 1], r.value, r.t,
                   r.slept, r.value)

\* r is what the wrapped layer gives to the for loop, which the first
\* step does not reach
TimedRetry_attempts(gen, r, t) ==
    LET pulled == [gen EXCEPT !.inner = r.gen]
        elapsed == r.t - gen.start
        remaining == gen.time - elapsed
    IN  IF ~gen.started
        THEN Yield([gen EXCEPT !.started = TRUE, !.start = t], Wait(gen.time),
                   t, 0, None)
        ELSE IF r.stop THEN [r EXCEPT !.gen = pulled]
        ELSE IF remaining <= 0 THEN Stop(pulled, r.t, r.slept, "time")
        ELSE Yield(pulled, Wait(remaining), r.t, r.slept, r.value)

BackoffRetry_attempts(gen, r) ==
    LET pulled == [gen EXCEPT !.inner = r.gen, !.attempt = gen.attempt + 1]
        delay0 == gen.backoff * 2 ^ (gen.attempt - 1)
        delay == IF WaitTruthy(r.value) THEN Min(delay0, r.value.v)
                 ELSE delay0
        remaining == IF WaitTruthy(r.value) THEN Wait(r.value.v - delay)
                     ELSE r.value
    IN  IF r.stop THEN [r EXCEPT !.gen = [gen EXCEPT !.inner = r.gen]]
        ELSE IF gen.attempt > 0
        THEN IF delay < 0
             THEN Throw(pulled, "ValueError", r.t, r.slept)
             ELSE Yield(pulled, remaining, r.t + delay, r.slept + delay,
                        r.value)
        ELSE Yield(pulled, r.value, r.t, r.slept, r.value)

\* next(gen) at time t
RECURSIVE gen_next(_, _)
gen_next(gen, t) ==
    CASE gen.cls = "InfiniteRetry" -> InfiniteRetry_attempts(gen, t)
      [] gen.cls = "AttemptRetry" ->
            AttemptRetry_attempts(gen, gen_next(gen.inner, t))
      [] gen.cls = "TimedRetry" ->
            TimedRetry_attempts(gen, gen_next(gen.inner, t), t)
      [] gen.cls = "BackoffRetry" ->
            BackoffRetry_attempts(gen, gen_next(gen.inner, t))

\* ------------------------------------------------------------------------
\* The retry policies as a state machine: built is the last constructor
\* call and its outcome; policy is one iteration, by a for loop, over a
\* chain of layers nested in the order of Retry.__new__ whose fields were
\* set by hand, since no constructor call returns a chain.
\* ------------------------------------------------------------------------
\* the chain of Retry.__new__ for the settings given, 0 for a setting left
\* out
Layers(attempts, time, backoff) ==
    LET retry0 == InfiniteObj
        retry1 == IF attempts # 0 THEN AttemptObj(retry0, attempts)
                  ELSE retry0
        retry2 == IF time # 0 THEN TimedObj(retry1, time) ELSE retry1
    IN  IF backoff # 0 THEN BackoffObj(retry2, backoff) ELSE retry2

AttemptCounts == 0..MaxAttempts
Times == (0 - 1)..MaxTime
Backoffs == 0..MaxBackoff
\* values a for loop may take from a policy before the model stops it
MaxYields == MaxAttempts + MaxTime + 2

StartPolicy(attempts, time, backoff) ==
    [pc |-> "idle",
     cfg |-> [attempts |-> attempts, time |-> time, backoff |-> backoff],
     gen |-> iter(Layers(attempts, time, backoff)),
     count |-> 0, value |-> None, wrapped |-> None, delay |-> 0, slept |-> 0,
     start |-> 0, at |-> 0, worked |-> 0, spun |-> FALSE, exc |-> "none",
     cause |-> "none"]

InitRetry ==
    /\ now = StartTime
    /\ signed = NoSign /\ verified = NoVerify
    /\ cw = NoCipherCall /\ cr = NoCipherCall
    /\ file = NoFile /\ writer = NoSession /\ reader = NoSession
    /\ observed = NotObserved
    /\ built = NoBuilt
    /\ \E a \in AttemptCounts, t \in Times, b \in Backoffs :
           policy = StartPolicy(a, t, b)
    /\ made = NoMade /\ watch = NoWatch /\ wfile = NoWFile

Construction(form, given, attempts, time, backoff, result) ==
    [called |-> TRUE, form |-> form, given |-> given, attempts |-> attempts,
     time |-> time, backoff |-> backoff, exc |-> result.exc,
     retcls |-> result.ret.cls]

\* Retry(**kwargs) with any of attempts, time and backoff given by keyword
RetryCall ==
    /\ policy.pc = "idle" /\ ~built.called
    /\ \E given \in SUBSET {"attempts", "time", "backoff"},
          a \in AttemptCounts, t \in Times, b \in Backoffs :
           LET val == [attempts |-> a, time |-> t, backoff |-> b]
               kwargs == [n \in given |-> PyInt(val[n])]
               Given(n) == IF n \in given THEN val[n] ELSE 0
           IN  /\ a = Given("attempts") /\ t = Given("time")
               /\ b = Given("backoff")
               /\ built' = Construction("Retry", given, a, t, b,
                                        Retry_call("Retry", <<>>, kwargs, 0))
    /\ UNCHANGED <<policy, tokenVars, cipherVars, storeVars, watchVars>>

\* Retry(x) and Retry(x, y): the arguments by position
RetryPositional ==
    /\ policy.pc = "idle" /\ ~built.called
    /\ \E args \in {<<x>> : x \in Times} \cup (Times \X Backoffs) :
           built' = Construction("Retry positional", {}, 0, args[1],
                                 IF Len(args) > 1 THEN args[2] ELSE 0,
                                 Retry_call("Retry",
                                            [i \in 1..Len(args) |-> PyInt(args[i])],
                                            NoKw, 0))
    /\ UNCHANGED <<policy, tokenVars, cipherVars, storeVars, watchVars>>

\* a layer's own class called: InfiniteRetry(), AttemptRetry(retry, n),
\* TimedRetry(retry, t), BackoffRetry(retry, b)
LayerCall ==
    /\ policy.pc = "idle" /\ ~built.called
    /\ \/ built' = Construction("InfiniteRetry", {}, 0, 0, 0,
                                Retry_call("InfiniteRetry", <<>>, NoKw, 0))
       \/ \E n \in AttemptCounts :
              built' = Construction("AttemptRetry", {}, n, 0, 0,
                           Retry_call("AttemptRetry",
                                      <<PyObj(InfiniteObj), PyInt(n)>>, NoKw, 0))
       \/ \E t \in Times :
              built' = Construction("TimedRetry", {}, 0, t, 0,
                           Retry_call("TimedRetry",
                                      <<PyObj(InfiniteObj), PyInt(t)>>, NoKw, 0))
       \/ \E b \in Backoffs :
              built' = Construction("BackoffRetry", {}, 0, 0, b,
                           Retry_call("BackoffRetry",
                                      <<PyObj(InfiniteObj), PyInt(b)>>, NoKw, 0))
    /\ UNCHANGED <<policy, tokenVars, cipherVars, storeVars, watchVars>>

\* TimedRetry.__init__ run on an instance that was made without __new__
TimedInit ==
    /\ policy.pc = "idle" /\ ~built.called
    /\ \E t \in Times :
           built' = Construction("TimedRetry.__init__", {}, 0, t, 0,
                                 TimedRetry_init(InfiniteObj, t))
    /\ UNCHANGED <<policy, tokenVars, cipherVars, storeVars, watchVars>>

\* the caller has looked at the outcome of the constructor
BuiltDone ==
    /\ built.called
    /\ built' = NoBuilt
    /\ UNCHANGED <<policy, tokenVars, cipherVars, storeVars, watchVars>>

\* the for loop takes the next value from the policy
RetryNext ==
    /\ policy.pc \in {"idle", "yielded"} /\ ~built.called
    /\ policy.count < MaxYields
    /\ LET r == gen_next(policy.gen, now)
       IN  /\ policy' = [policy EXCEPT
                  !.pc = IF r.stop THEN "done" ELSE "yielded",
                  !.gen = r.gen,
                  !.count = IF r.stop THEN @ ELSE @ + 1,
                  !.value = r.value, !.wrapped = r.wrapped,
                  !.delay = r.slept, !.slept = @ + r.slept,
                  !.start = IF policy.pc = "idle" THEN now ELSE @,
                  !.at = r.t, !.worked = 0,
                  !.spun = @ \/ (policy.pc = "yielded" /\ r.t = policy.at),
                  !.exc = r.exc, !.cause = r.cause]
           /\ now' = r.t
    /\ UNCHANGED <<built, signed, verified, cipherVars, storeVars, watchVars>>

\* the body of the for loop takes time
RetryWork ==
    /\ policy.pc = "yielded" /\ ~built.called
    /\ policy.worked < MaxWork
    /\ now' = now + 1
    /\ policy' = [policy EXCEPT !.worked = @ + 1]
    /\ UNCHANGED <<built, signed, verified, cipherVars, storeVars, watchVars>>

NextRetry ==
    RetryCall \/ RetryPositional \/ LayerCall \/ TimedInit \/ BuiltDone
        \/ RetryNext \/ RetryWork

SpecRetry == InitRetry /\ [][NextRetry]_vars

\* a caller goes on after a constructor call, and the for loop, which
\* constructor calls made before it starts cannot hold up for ever, goes on
\* for as long as the policy has values
SpecRetryLive == SpecRetry /\ WF_vars(BuiltDone) /\ SF_vars(RetryNext)

\* ------------------------------------------------------------------------
\* Properties of the retry policies
\* ------------------------------------------------------------------------
\* the constructor call asks for the setting by keyword, or, for a layer's
\* own class, by position
Asks(name, form) ==
    /\ built.called
    /\ \/ built.form = "Retry" /\ name \in built.given
       \/ built.form = form
\* the chain that is iterated has a time-bounded layer with a budget
TimedChain == policy.pc # "none" /\ policy.cfg.time > 0
\* the delay of the backoff layer before attempt n, without the cap
BackoffDelay(n) == policy.cfg.backoff * 2 ^ (n - 1)

\* a chain with max_attempts = N gives at most N values, also under a time
\* bound, and exactly N when its time budget did not end it
AttemptBoundHolds ==
    (policy.pc # "none" /\ policy.cfg.attempts >= 1)
        => /\ policy.count <= policy.cfg.attempts
           /\ (policy.pc = "done" /\ policy.cause # "time")
                  => policy.count = policy.cfg.attempts

\* C11: a policy built with max_attempts = N >= 1, with any time budget
\* and backoff base, exists and yields at most N values, and exactly N
\* values when the time budget does not run out first.
C11_AttemptBound ==
    /\ (Asks("attempts", "AttemptRetry") /\ built.attempts >= 1)
           => built.exc = "none"
    /\ AttemptBoundHolds

\* at each value of a chain with budget T the reported wait plus the time
\* since the iteration started is at most T, the wait is not negative, and
\* the time slept is at most T
TimeBudgetHolds ==
    TimedChain
        => /\ policy.pc = "yielded"
                  => /\ ~policy.value.none
                     /\ policy.value.v >= 0
                     /\ policy.value.v + (policy.at - policy.start)
                            <= policy.cfg.time
           /\ policy.slept <= policy.cfg.time

\* C12: a policy built with max_time = T exists, and at each value it
\* yields the reported wait plus the time elapsed since the iteration
\* started does not exceed T, the reported wait is never negative, and the
\* backoff layer never sleeps more than T in all.
C12_TimeBudget ==
    /\ (Asks("time", "TimedRetry") /\ built.time > 0) => built.exc = "none"
    /\ TimeBudgetHolds

\* before attempt 0 the backoff layer does not sleep; before attempt
\* n >= 1 it sleeps min(b * 2^(n-1), remaining), without the cap when the
\* wrapped layer reported no wait
PacingHolds ==
    (policy.pc = "yielded" /\ policy.cfg.backoff > 0)
        => LET n == policy.count - 1
           IN  policy.delay
                   = IF n = 0 THEN 0
                     ELSE IF policy.wrapped.none THEN BackoffDelay(n)
                     ELSE Min(BackoffDelay(n), policy.wrapped.v)

\* C13: a policy with backoff base b exists; it does not sleep before
\* attempt 0, and before each attempt n >= 1 it sleeps exactly
\* min(b * 2^(n-1), remaining), remaining being the wait the wrapped layer
\* reported, and b * 2^(n-1) when that layer reported no wait.
C13_BackoffPacing ==
    /\ (Asks("backoff", "BackoffRetry") /\ built.backoff > 0)
           => built.exc = "none"
    /\ PacingHolds

\* the call is Retry with every setting left out or zero
Unconfigured ==
    /\ built.called
    /\ built.form \in {"Retry", "Retry positional"}
    /\ built.attempts = 0 /\ built.time = 0 /\ built.backoff = 0

C15_TimedValidation ==
    (Asks("time", "TimedRetry") \/ Asks("time", "TimedRetry.__init__"))
        => /\ built.exc = "ValueError" <=> built.time <= 0
           /\ built.time > 0 => built.exc = "none"

\* the chain has an attempt bound or a time budget
Bounded == policy.cfg.attempts >= 1 \/ policy.cfg.time > 0

\* C20: a policy built with max_attempts >= 1 or max_time > 0 exists, its
\* iteration raises nothing, and it ends after finitely many values when
\* time advances between the attempts.
C20_Termination ==
    /\ []((/\ built.called /\ built.form = "Retry"
           /\ built.attempts >= 1 \/ built.time > 0) => built.exc = "none")
    /\ [](policy.pc # "none" => policy.exc = "none")
    /\ <>(\/ policy.pc = "none" \/ ~Bounded
          \/ policy.pc = "done" \/ policy.spun)

\* ------------------------------------------------------------------------
\* sails.core.file.ObservedFile.  The file at the path has a modification
\* time and a content, which the parser turns into a value or refuses; a
\* parsed value is an int, 0 standing for the values that are false as a
\* bool.  The fields data and the returned data are records whose field
\* none says that they are None.
\* ------------------------------------------------------------------------
Unset == [none |-> TRUE, v |-> 0]
Value(n) == [none |-> FALSE, v |-> n]
\* bool(self.data)
DataTruthy(d) == ~d.none /\ d.v # 0

\* the content of a file: one the parser refuses, or one it turns into v
Unparseable == [ok |-> FALSE, v |-> 0]
Parseable(n) == [ok |-> TRUE, v |-> n]
Contents == {Unparseable} \cup {Parseable(n) : n \in 0..MaxValue}
FileWith(content, mtime) ==
    [exists |-> TRUE, content |-> content, mtime |-> mtime]
Absent == [exists |-> FALSE, content |-> Unparseable, mtime |-> 0]

\* the fields after ObservedFile.__init__ has set them, before the loop
NewObserved == [data |-> Unset, modified_time |-> 0]

\* the outcomes of a call; opened says that the call opened the file and
\* handed it to the parser, parsed that the parser returned a value
GetReturned(self) ==
    [exc |-> "none", self |-> self, data |-> self.data,
     modified_time |-> self.modified_time, parsed |-> FALSE,
     opened |-> FALSE]
GetRaised(self) ==
    [exc |-> "FileNotFoundError", self |-> self, data |-> Unset,
     modified_time |-> 0, parsed |-> FALSE, opened |-> FALSE]

\* get_data_and_modified_time with <= for < in the comparison of the times:
\* a file that is as old as the cache is parsed again
get_data_and_modified_time_le(self, f, gone) ==
    IF ~f.exists
    THEN IF ~DataTruthy(self.data) THEN GetRaised(self)
         ELSE GetReturned(self)
    ELSE IF self.modified_time <= f.mtime
    THEN IF gone \/ ~f.content.ok
         THEN IF ~DataTruthy(self.data)
              THEN [GetRaised(self) EXCEPT !.opened = TRUE]
              ELSE [GetReturned([self EXCEPT !.modified_time = f.mtime])
                       EXCEPT !.opened = TRUE]
         ELSE [GetReturned([data |-> Value(f.content.v),
                            modified_time |-> f.mtime])
                  EXCEPT !.parsed = TRUE, !.opened = TRUE]
    ELSE GetReturned(self)

\* self.get_data_and_modified_time() with the file f at the path; gone
\* says that f is no longer there when it is opened
get_data_and_modified_time(self, f, gone) ==
    IF ~f.exists
    THEN IF ~DataTruthy(self.data) THEN GetRaised(self)
         ELSE GetReturned(self)
    ELSE IF self.modified_time < f.mtime
    THEN IF gone \/ ~f.content.ok
         THEN IF ~DataTruthy(self.data)
              THEN [GetRaised(self) EXCEPT !.opened = TRUE]
              ELSE [GetReturned([self EXCEPT !.modified_time = f.mtime])
                       EXCEPT !.opened = TRUE]
         ELSE [GetReturned([data |-> Value(f.content.v),
                            modified_time |-> f.mtime])
                  EXCEPT !.parsed = TRUE, !.opened = TRUE]
    ELSE GetReturned(self)

\* ObservedFile(path, parser, timeout=timeout, backoff=backoff) up to the
\* for loop: the outcome and, when the loop is entered, its iterator
ObservedFile_init(timeout, backoff) ==
    LET made0 == Retry_call("Retry", <<>>,
                            [n \in {"time", "backoff"} |->
                                 IF n = "time" THEN PyInt(timeout)
                                 ELSE PyInt(backoff)], 0)
    IN  IF timeout = 0
        THEN [exc |-> "UnboundLocalError", loop |-> FALSE,
              gen |-> iter(InfiniteObj)]
        ELSE IF made0.exc # "none"
        THEN [exc |-> made0.exc, loop |-> FALSE, gen |-> iter(InfiniteObj)]
        ELSE [exc |-> "none", loop |-> TRUE, gen |-> iter(made0.ret)]

\* ------------------------------------------------------------------------
\* ObservedFile as a state machine: made is the last constructor call and
\* its outcome; watch is one instance, from the for loop of __init__ on,
\* the loop running over a chain of retry layers whose fields were set by
\* hand, since Retry(time=..., backoff=...) returns none; wfile is the file
\* at the path, which other processes write and delete.
\* ------------------------------------------------------------------------
Timeouts == 0..MaxTime

\* how the modification time of the file f compares with the cached one
Age(self, f) ==
    IF ~f.exists THEN "none"
    ELSE IF self.modified_time < f.mtime THEN "newer"
    ELSE IF self.modified_time = f.mtime THEN "equal"
    ELSE "older"
\* a modification time before that of every file the observation saw
OldTime == StartTime - 1
NoGet == [called |-> FALSE, op |-> "none", exc |-> "none", data |-> Unset,
          modified_time |-> 0, populated |-> FALSE, opened |-> FALSE,
          found |-> FALSE, age |-> "none", kept |-> FALSE,
          cached |-> FALSE]

\* the instance when __init__ reaches its for loop with the iterator gen
AtLoop(timeout, backoff, gen) ==
    [pc |-> "loop", self |-> NewObserved, timeout |-> timeout,
     backoff |-> backoff, gen |-> gen, tries |-> 0, exc |-> "none",
     parsed |-> Unset, parsedAt |-> 0, after |-> 0, start |-> 0,
     last |-> NoGet]

InitWatch ==
    /\ now = StartTime
    /\ signed = NoSign /\ verified = NoVerify
    /\ cw = NoCipherCall /\ cr = NoCipherCall
    /\ file = NoFile /\ writer = NoSession /\ reader = NoSession
    /\ observed = NotObserved
    /\ built = NoBuilt /\ policy = NoPolicy
    /\ made = NoMade
    /\ \E timeout \in Timeouts \ {0}, backoff \in Backoffs :
           watch = AtLoop(timeout, backoff,
                          iter(Layers(0, timeout, backoff)))
    /\ wfile \in {Absent} \cup {FileWith(c, StartTime) : c \in Contents}

\* ObservedFile(path, parser, timeout, backoff=backoff) is called
Construct ==
    /\ ~made.called /\ watch.pc = "loop" /\ watch.tries = 0
    /\ \E timeout \in Timeouts, backoff \in Backoffs :
           LET r == ObservedFile_init(timeout, backoff)
           IN  /\ made' = [called |-> TRUE, timeout |-> timeout,
                           backoff |-> backoff, exc |-> r.exc,
                           file |-> wfile, elapsed |-> 0]
               /\ watch' = IF r.loop THEN AtLoop(timeout, backoff, r.gen)
                           ELSE watch
    /\ UNCHANGED <<wfile, tokenVars, cipherVars, storeVars, retryVars>>

\* the caller has looked at the outcome of the constructor
MadeDone ==
    /\ made.called
    /\ made' = NoMade
    /\ UNCHANGED <<watch, wfile, tokenVars, cipherVars, storeVars, retryVars>>

\* __init__ is left: its locals and the iterator of its loop are gone
init_return(w) ==
    IF w.pc \in {"ready", "failed"}
    THEN [w EXCEPT !.gen = iter(InfiniteObj), !.timeout = 0, !.tries = 0,
                   !.start = 0]
    ELSE w

\* the for loop of __init__ takes the next value from the policy, which
\* sleeps its backoff; the loop and __init__ end when there is none
LoopNext ==
    /\ ~made.called /\ watch.pc = "loop"
    /\ watch.tries < MaxYields
    /\ LET r == gen_next(watch.gen, now)
       IN  /\ watch' = init_return([watch EXCEPT
                  !.pc = IF r.exc # "none" THEN "failed"
                         ELSE IF r.stop THEN "ready" ELSE "body",
                  !.exc = r.exc,
                  !.gen = r.gen,
                  !.start = IF watch.tries = 0 THEN now ELSE @,
                  !.tries = IF r.stop THEN @ ELSE @ + 1])
           /\ now' = r.t
    /\ UNCHANGED <<made, wfile, signed, verified, cipherVars, storeVars,
                   retryVars>>

\* the body of the for loop: one attempt
LoopBody ==
    /\ ~made.called /\ watch.pc = "body"
    /\ \E gone \in BOOLEAN :
           LET r == get_data_and_modified_time(watch.self, wfile, gone)
           IN  IF DataTruthy(watch.self.data)
               THEN watch' = init_return([watch EXCEPT !.pc = "ready"])
               ELSE watch' = init_return([watch EXCEPT
                        !.pc = IF r.exc = "none" THEN "ready" ELSE "loop",
                        !.self = r.self,
                        !.parsed = IF r.parsed THEN r.data ELSE @,
                        !.parsedAt = IF r.parsed THEN wfile.mtime ELSE @,
                        !.after = IF watch.parsed.none THEN @ ELSE @ + 1])
    /\ UNCHANGED <<made, wfile, tokenVars, cipherVars, storeVars, retryVars>>

\* get_data() or get_modified_time() on the instance that __init__ returned
Get ==
    /\ ~made.called /\ watch.pc = "ready"
    /\ \E gone \in BOOLEAN, op \in {"get_data", "get_modified_time"} :
           LET r == get_data_and_modified_time(watch.self, wfile, gone)
           IN  watch' = [watch EXCEPT
                   !.self = r.self,
                   !.parsed = IF r.parsed THEN r.data ELSE @,
                   !.parsedAt = IF r.parsed THEN wfile.mtime ELSE @,
                   !.last = [called |-> TRUE, op |-> op, exc |-> r.exc,
                             data |-> r.data,
                             modified_time |-> r.modified_time,
                             populated |-> ~watch.parsed.none,
                             opened |-> r.opened,
                             found |-> wfile.exists,
                             age |-> Age(watch.self, wfile),
                             kept |-> (r.self = watch.self),
                             cached |->
                                 /\ r.data = watch.self.data
                                 /\ r.modified_time
                                        = watch.self.modified_time]]
    /\ UNCHANGED <<made, wfile, tokenVars, cipherVars, storeVars, retryVars>>

\* another process writes the file, or puts a file in its place that was
\* last modified before the observation began
FileWrite ==
    /\ ~made.called /\ watch.pc \in {"loop", "body", "ready"}
    /\ \E c \in Contents, mtime \in {now, OldTime} :
           wfile' = FileWith(c, mtime)
    /\ UNCHANGED <<made, watch, tokenVars, cipherVars, storeVars, retryVars>>

\* another process deletes the file
FileDelete ==
    /\ ~made.called /\ watch.pc \in {"loop", "body", "ready"}
    /\ wfile.exists
    /\ wfile' = Absent
    /\ UNCHANGED <<made, watch, tokenVars, cipherVars, storeVars, retryVars>>

NextWatch ==
    Construct \/ MadeDone \/ LoopNext \/ LoopBody \/ Get \/ FileWrite
        \/ FileDelete \/ Tick

SpecWatch == InitWatch /\ [][NextWatch]_vars

\* ------------------------------------------------------------------------
\* Properties of ObservedFile
\* ------------------------------------------------------------------------
\* the constructor was called with a deadline
MadeWithDeadline == made.called /\ made.timeout > 0

\* C16: when the attempts of a construction with a deadline end without
\* one of them having parsed the file, the file being absent or
\* unparseable throughout, the construction fails with FileNotFound; it
\* never returns an instance that is still unpopulated.
C16_DeadlineFails ==
    /\ (MadeWithDeadline /\ ~(made.file.exists /\ made.file.content.ok))
           => made.exc = "FileNotFoundError"
    /\ watch.pc = "failed" => watch.exc = "FileNotFoundError"
    /\ watch.pc = "ready" => ~watch.parsed.none

\* C17: a construction with a deadline does not give up before the
\* deadline has elapsed, so that a file created before then is found; the
\* first attempt that parses the file ends the construction, with the
\* parsed value as the cached value and without a further attempt.
C17_EventualSuccess ==
    /\ (MadeWithDeadline /\ made.exc # "none")
           => made.elapsed >= made.timeout
    /\ (watch.pc # "none" /\ ~watch.parsed.none)
           => /\ watch.pc = "ready"
              /\ watch.self.data = watch.parsed
              /\ watch.after = 0

====
